---- MODULE Spec2Model ----
(***************************************************************************)
(* Model of the assistant relay in src/server.js: the upstream client      *)
(* openAI, the conversation operations built on it, the run completion     *)
(* poller waitForRunComplete, the reply extractor                          *)
(* extractLatestAssistantText and the two HTTP handlers /chat/start and    *)
(* /chat/send.  Every `await` of a handler is a point where the handler    *)
(* is suspended; the action that resumes it runs the code up to the next   *)
(* `await` or to the response.                                             *)
(***************************************************************************)
EXTENDS Integers, Sequences, FiniteSets, TLC

(***************************************************************************)
(* JavaScript values.  A primitive is a record [t, v]: its typeof and its  *)
(* text as a template literal prints it.                                   *)
(***************************************************************************)
Undefined == [t |-> "undefined", v |-> "undefined"]

Str(s) == [t |-> "string", v |-> s]

Num(s) == [t |-> "number", v |-> s]

\* JavaScript truthiness of a primitive (the operand of !x, x && y, x || y)
Truthy(x) ==
  CASE x.t = "undefined" -> FALSE
    [] x.t = "string"    -> x.v # ""
    [] x.t = "number"    -> x.v # "0"
    [] OTHER             -> TRUE

\* typeof x === "string"
IsString(x) == x.t = "string"

(***************************************************************************)
(* Bounds of the model.                                                    *)
(***************************************************************************)
\* longest message list the upstream answers list-messages with
MaxMsgs == 2

\* most content blocks in one message
MaxBlocks == 2

(***************************************************************************)
(* Program constants.                                                      *)
(***************************************************************************)
\* the loop bound of i <= 40
MaxAttemptsInclusive == 40 + 1

\* for (let i = 0; i < 40; i++)
MaxAttempts == 40

\* a wait of half a second
SleepMsLonger == 400 + 100

\* await sleep(400)
SleepMs == 400

\* listMessages(tid, 20)
ListLimit == 20

\* the requests the server handles
Reqs == {"r1"}

SeqsUpTo(S, n) == UNION {[1..k -> S] : k \in 0..n}

(***************************************************************************)
(* Messages of a thread as the upstream lists them.                        *)
(***************************************************************************)
\* a content block: its type and its text?.value
Blocks ==
  { [type |-> "text", value |-> Str("hello")],
    [type |-> "text", value |-> Str("bye")],
    [type |-> "text", value |-> Str("")],
    [type |-> "image_file", value |-> Undefined] }

\* the content of a message: an array of blocks, or something that is no array
Contents ==
  {[isArray |-> TRUE, items |-> s] : s \in SeqsUpTo(Blocks, MaxBlocks)}
    \cup {[isArray |-> FALSE, items |-> <<>>]}

Messages ==
  {[role |-> "assistant", content |-> c] : c \in Contents}
    \cup {[role |-> "user",
           content |-> [isArray |-> TRUE,
                        items |-> <<[type |-> "text", value |-> Str("bye")]>>]]}

\* the `data` field of a list payload
MessageLists ==
  {[isArray |-> TRUE, items |-> s] : s \in SeqsUpTo(Messages, MaxMsgs)}
    \cup {[isArray |-> FALSE, items |-> <<>>]}

NoList == [isArray |-> FALSE, items |-> <<>>]

(***************************************************************************)
(* Payloads: the value `data` that openAI builds from a response body,     *)
(* flattened to the fields the program reads.  kind is "object", "null"    *)
(* (the body was the JSON text null) or "undefined" (no payload at all,    *)
(* the e.data of an Error that is not openAI's).                           *)
(***************************************************************************)
EmptyObj ==
  [kind |-> "object", id |-> Undefined, status |-> Undefined,
   lastErrMsg |-> Undefined, errMsg |-> Undefined, data |-> NoList,
   raw |-> Undefined]

NullData == [EmptyObj EXCEPT !.kind = "null"]

NoData == [EmptyObj EXCEPT !.kind = "undefined"]

(***************************************************************************)
(* The upstream: what fetch can produce for each call.                     *)
(***************************************************************************)
\* HTTP statuses the upstream answers with
UpStatuses == {200, 201, 404, 500}

RunStatuses ==
  {Str("queued"), Str("requires_action"), Str("completed"), Str("failed"),
   Str("cancelled"), Str("expired"), Undefined}

\* JSON bodies any endpoint may answer with, and the ones of error answers
CommonJson ==
  { EmptyObj, NullData,
    [EmptyObj EXCEPT !.errMsg = Str("bad request")],
    [EmptyObj EXCEPT !.errMsg = Str("")] }

ThreadJson == {[EmptyObj EXCEPT !.id = Str("t_new")]}

RunJson == {[EmptyObj EXCEPT !.id = Str("run_1"), !.status = Str("queued")]}

PollJson ==
  {[EmptyObj EXCEPT !.id = Str("run_1"), !.status = s] : s \in RunStatuses}
    \cup {[EmptyObj EXCEPT !.id = Str("run_1"), !.status = s, !.lastErrMsg = m] :
            s \in {Str("failed"), Str("cancelled"), Str("expired")},
            m \in {Str("boom"), Str("")}}

\* some message lists: none, one reply, a reply under a newer user message, an
\* assistant message without text above an older reply, and no array at all
SampleLists ==
  LET text(s) == [type |-> "text", value |-> Str(s)]
      msg(role, blocks) == [role |-> role,
                            content |-> [isArray |-> TRUE, items |-> blocks]]
  IN { [isArray |-> TRUE, items |-> <<>>],
       [isArray |-> TRUE, items |-> <<msg("assistant", <<text("hello")>>)>>],
       [isArray |-> TRUE, items |-> <<msg("user", <<text("bye")>>),
                                      msg("assistant", <<text(""), text("hello")>>)>>],
       [isArray |-> TRUE, items |-> <<msg("assistant", <<>>),
                                      msg("assistant", <<text("bye")>>)>>],
       NoList }

ListJson == {[EmptyObj EXCEPT !.data = l] : l \in SampleLists}

\* every list payload within the bounds
AllListJson == {[EmptyObj EXCEPT !.data = l] : l \in MessageLists}

JsonFor(op) ==
  CommonJson \cup
    CASE op = "createThread"   -> ThreadJson
      [] op = "addUserMessage" -> {[EmptyObj EXCEPT !.id = Str("msg_1")]}
      [] op = "createRun"      -> RunJson
      [] op = "getRun"         -> PollJson
      [] op = "listMessages"   -> ListJson

\* response bodies: JSON text, text that is no JSON, or the empty text
BodiesOf(jsons) ==
  {[fmt |-> "json", json |-> j, text |-> "json"] : j \in jsons}
    \cup {[fmt |-> "garbage", json |-> NoData, text |-> "<html>"],
          [fmt |-> "empty", json |-> NoData, text |-> ""]}

\* fetch resolves with a status and a body, or rejects (network failure); an
\* answer of the endpoint's own shape comes with a 2xx status
FetchResults(op) ==
  {[net |-> "ok", status |-> s, body |-> b] :
     s \in UpStatuses \cap (200..299), b \in BodiesOf(JsonFor(op))}
    \cup {[net |-> "ok", status |-> s, body |-> b] :
            s \in UpStatuses \ (200..299), b \in BodiesOf(CommonJson)}
    \cup {[net |-> "reject", status |-> 0,
           body |-> [fmt |-> "empty", json |-> NoData, text |-> ""]]}

(***************************************************************************)
(* openAI (server.js 29-48)                                                *)
(***************************************************************************)
\* res.ok of a client that takes 200 alone as success
ResOkOnly200(status) == status = 200

\* res.ok
ResOk(status) == status >= 200 /\ status <= 299

\* ParseBody with a catch that keeps the empty object and drops the raw text
ParseBodyDropsRaw(body) ==
  CASE body.fmt = "json" -> body.json
    [] OTHER             -> EmptyObj

\* lines 36-38: text ? JSON.parse(text) : {}, catch { raw: text }
ParseBody(body) ==
  CASE body.fmt = "empty" -> EmptyObj
    [] body.fmt = "json"  -> body.json
    [] OTHER              -> [EmptyObj EXCEPT !.raw = Str(body.text)]

\* an Error: e.message, e.status (when set) and e.data
PlainError(msg) ==
  [message |-> msg, hasStatus |-> FALSE, status |-> 0, data |-> NoData]

\* line 41: data?.error?.message || `OpenAI request failed (${res.status})`
OpenAIMessage(data, status) ==
  IF data.kind = "object" /\ Truthy(data.errMsg)
    THEN data.errMsg.v
    ELSE "OpenAI request failed (" \o ToString(status) \o ")"

\* the outcome of `await openAI(...)`: a thrown Error or the payload
openAI(f) ==
  IF f.net = "reject"
    THEN [threw |-> TRUE, err |-> PlainError("fetch failed"), data |-> NoData]
    ELSE LET data == ParseBody(f.body) IN
      IF ~ResOk(f.status)
        THEN [threw |-> TRUE,
              err |-> [message |-> OpenAIMessage(data, f.status),
                       hasStatus |-> TRUE, status |-> f.status, data |-> data],
              data |-> NoData]
        ELSE [threw |-> FALSE, err |-> PlainError(""), data |-> data]

\* reading a property of the awaited payload: a TypeError when it is null
Deref(o, prop) ==
  IF ~o.threw /\ o.data.kind = "null"
    THEN [o EXCEPT !.threw = TRUE,
                   !.err = PlainError("Cannot read properties of null (reading '"
                                        \o prop \o "')")]
    ELSE o

(***************************************************************************)
(* The calls the conversation operations make (server.js 50-75, 93-95).    *)
(* A call is the operation that makes it and the request openAI sends for  *)
(* it: method, path, the beta header, the Content-Type header (sent        *)
(* exactly when there is a body) and the body.                             *)
(***************************************************************************)
Call(op, method, path, bodyKind, text) ==
  [op |-> op, method |-> method, path |-> path, beta |-> TRUE,
   json |-> bodyKind # "none", body |-> bodyKind, text |-> text]

createThread == Call("createThread", "POST", "/threads", "empty", "")

addUserMessage(threadId, text) ==
  Call("addUserMessage", "POST", "/threads/" \o threadId.v \o "/messages",
       "message", text.v)

createRun(threadId) ==
  Call("createRun", "POST", "/threads/" \o threadId.v \o "/runs", "run", "")

getRun(threadId, runId) ==
  Call("getRun", "GET", "/threads/" \o threadId.v \o "/runs/" \o runId.v, "none", "")

listMessages(threadId, limit) ==
  Call("listMessages", "GET",
       "/threads/" \o threadId.v \o "/messages?limit=" \o ToString(limit), "none", "")

(***************************************************************************)
(* extractLatestAssistantText (server.js 97-105)                           *)
(***************************************************************************)
\* Array.prototype.find over the callback's results: the index of the first
\* element the callback accepts, or 0 for undefined
FindIndex(hits) ==
  IF \E k \in 1..Len(hits) : hits[k]
    THEN CHOOSE k \in 1..Len(hits) : hits[k] /\ \A j \in 1..(k - 1) : ~hits[j]
    ELSE 0

IsAssistant(m) == m.role = "assistant"

IsTextBlock(b) == b.type = "text" /\ Truthy(b.value)

HasText(m) ==
  m.role = "assistant" /\ m.content.isArray
    /\ \E k \in 1..Len(m.content.items) : IsTextBlock(m.content.items[k])

\* the extractor looking for the first assistant message that has a text
extractAnyAssistantText(messagesList) ==
  LET data == IF messagesList.kind = "object" /\ messagesList.data.isArray
                THEN messagesList.data.items ELSE <<>>
      a == FindIndex([k \in 1..Len(data) |-> HasText(data[k])])
  IN IF a = 0 THEN Undefined
     ELSE LET blocks == data[a].content.items IN
       blocks[FindIndex([k \in 1..Len(blocks) |-> IsTextBlock(blocks[k])])].value

\* the result is a string value, or Undefined standing for null
extractLatestAssistantText(messagesList) ==
  LET data == IF messagesList.kind = "object" /\ messagesList.data.isArray
                THEN messagesList.data.items ELSE <<>>
      a == FindIndex([k \in 1..Len(data) |-> IsAssistant(data[k])])
  IN IF a = 0 THEN Undefined
     ELSE LET blocks == IF data[a].content.isArray
                          THEN data[a].content.items ELSE <<>>
              b == FindIndex([k \in 1..Len(blocks) |-> IsTextBlock(blocks[k])])
          IN IF b = 0 THEN Undefined ELSE blocks[b].value

(***************************************************************************)
(* The requests a client can send to POST /chat/send.                      *)
(***************************************************************************)
MessageInputs == {Undefined, Num("42"), Num("0"), Str(""), Str("hi")}

ThreadIdInputs == {Undefined, Num("7"), Str(""), Str("t_client")}

\* req.body || {} : a missing body reads as both fields undefined
Bodies == {[threadId |-> t, message |-> m] : t \in ThreadIdInputs, m \in MessageInputs}

(***************************************************************************)
(* State.  One entry per request: its handler's position and locals, the   *)
(* upstream calls made for it and the responses sent to its client.        *)
(***************************************************************************)
VARIABLES
  pc,         \* where the handler of the request is suspended
  route,      \* "none", "start" or "send"
  reqBody,    \* the parsed body of the request
  tid,        \* the handler's local tid
  runId,      \* run.id of the created run
  i,          \* the poller's loop counter
  calls,      \* the upstream calls issued for the request, in order
  responses,  \* the responses sent to the client, in order
  waited,     \* milliseconds the poller has slept
  lastRun,    \* the run object of the latest status fetch that returned one
  polled,     \* how many status fetches returned a pending / a terminal status
  upFail,     \* the upstream answer that was a failure: rejected or not 2xx
  unparsed,   \* whether some upstream answer had a body that is no JSON
  listed,     \* the `data` of the payload that list-messages returned
  created,    \* the id in the upstream's answer to this request's thread creation
  upFailBody, \* the body of the upstream answer that was a failure
  closed,     \* whether the request's client has gone away
  up,         \* the upstream's threads and runs, where the upstream is modelled
  fetched,    \* an upstream answer given to openAI on its own
  outcome     \* what openAI made of that answer

vars == <<pc, route, reqBody, tid, runId, i, calls, responses, waited, lastRun,
          polled, upFail, unparsed, listed, created, upFailBody, closed, up,
          fetched, outcome>>

NoRun == [status |-> Undefined, lastErrMsg |-> Undefined]

NoFetch == [net |-> "none", status |-> 0, fmt |-> "none"]

NoBody == [fmt |-> "none", json |-> NoData, text |-> ""]

\* an upstream that is not modelled: any answer can come
NoUpstream == [nThreads |-> 0, nRuns |-> 0, threads |-> <<>>, runs |-> <<>>]

\* no request has arrived
NoRequests(R) ==
  /\ pc = [r \in R |-> "idle"]
  /\ route = [r \in R |-> "none"]
  /\ reqBody = [r \in R |-> [threadId |-> Undefined, message |-> Undefined]]
  /\ tid = [r \in R |-> Undefined]
  /\ runId = [r \in R |-> Undefined]
  /\ i = [r \in R |-> 0]
  /\ calls = [r \in R |-> <<>>]
  /\ responses = [r \in R |-> <<>>]
  /\ waited = [r \in R |-> 0]
  /\ lastRun = [r \in R |-> NoRun]
  /\ polled = [r \in R |-> [pending |-> 0, terminal |-> 0]]
  /\ upFail = [r \in R |-> NoFetch]
  /\ unparsed = [r \in R |-> FALSE]
  /\ listed = [r \in R |-> NoList]
  /\ created = [r \in R |-> Undefined]
  /\ upFailBody = [r \in R |-> NoBody]
  /\ closed = [r \in R |-> FALSE]

\* no answer given to openAI on its own
NoFetched ==
  [net |-> "none", status |-> 0, body |-> [fmt |-> "none", json |-> NoData, text |-> ""]]

NoOutcome == [returned |-> FALSE, threw |-> FALSE, err |-> PlainError(""), data |-> NoData]

Init ==
  /\ NoRequests(Reqs)
  /\ up = NoUpstream
  /\ fetched = NoFetched
  /\ outcome = NoOutcome

(***************************************************************************)
(* Responses: the status and the keys of the JSON body (Undefined / NoData *)
(* for a key the body does not have).                                      *)
(***************************************************************************)
Response(status, error, details, threadId, reply) ==
  [status |-> status, error |-> error, details |-> details,
   threadId |-> threadId, reply |-> reply]

\* line 122
BadRequest ==
  Response(400, Str("Missing or invalid 'message' string"), NoData, Undefined,
           Undefined)

\* line 114: res.status(500).json({ error: e.message, details: e.data })
\* StartCatch answering with the status of the failure, as /chat/send does
StartCatchForwardsStatus(e) ==
  Response(IF e.hasStatus /\ e.status # 0 THEN e.status ELSE 500,
           Str(e.message), e.data, Undefined, Undefined)

StartCatch(e) == Response(500, Str(e.message), e.data, Undefined, Undefined)

\* CatchStatus as /chat/start has it: always 500
CatchStatusAlways500(e) == 500

\* line 137: e.status || 500
CatchStatus(e) == IF e.hasStatus /\ e.status # 0 THEN e.status ELSE 500

\* line 137: res.status(e.status || 500).json({ error: e.message, details: e.data })
SendCatch(e) == Response(CatchStatus(e), Str(e.message), e.data, Undefined, Undefined)

\* InvalidMessage without the typeof test
InvalidMessageNoTypeof(message) == ~Truthy(message)

\* InvalidMessage without the !message test
InvalidMessageNotString(message) == ~IsString(message)

\* line 121: !message || typeof message !== "string"
InvalidMessage(message) == ~Truthy(message) \/ ~IsString(message)

\* ReuseThread without the threadId && test
ReuseThreadAnyString(threadId) == IsString(threadId)

\* line 126: threadId && typeof threadId === "string"
ReuseThread(threadId) == Truthy(threadId) /\ IsString(threadId)

\* IsCompleted with the status misspelt
IsCompletedTypo(status) == status = Str("complete")

\* IsCompleted taking a run that waits for tool outputs as completed too
IsCompletedLoose(status) == status \in {Str("completed"), Str("requires_action")}

\* line 84
IsCompleted(status) == status = Str("completed")

\* IsRunFailure knowing only "failed"
IsRunFailureOnlyFailed(status) == status = Str("failed")

\* IsRunFailure taking every status it does not know to be pending as a failure
IsRunFailureUnknown(status) == status \notin {Str("queued"), Str("in_progress")}

\* line 85
IsRunFailure(status) == status \in {Str("failed"), Str("cancelled"), Str("expired")}

\* line 86: run.last_error?.message || `Run ${run.status}`
RunFailureMessage(run) ==
  IF Truthy(run.lastErrMsg) THEN run.lastErrMsg.v ELSE "Run " \o run.status.v

\* line 135: reply || ""
ReplyOrEmpty(reply) == IF Truthy(reply) THEN reply ELSE Str("")

\* the id of the thread an answer to thread creation tells of
CreatedId(f) ==
  IF f.net = "ok" /\ f.status \in 200..299 /\ f.body.fmt = "json"
       /\ f.body.json.kind = "object"
    THEN f.body.json.id
    ELSE Undefined

\* ThreadIdOf reading a key the thread payload does not have
ThreadIdOfMissingKey(thread) == Undefined

\* line 112 and line 126: thread.id, (await createThread()).id
ThreadIdOf(thread) == thread.id

\* what the upstream did, noted beside the program's own state
Note(r, f) ==
  /\ upFail' = [upFail EXCEPT ![r] =
                  IF f.net = "reject" \/ f.status \notin 200..299
                    THEN [net |-> f.net, status |-> f.status, fmt |-> f.body.fmt]
                    ELSE @]
  /\ unparsed' = [unparsed EXCEPT ![r] = @ \/ f.body.fmt = "garbage"]
  /\ upFailBody' = [upFailBody EXCEPT ![r] =
                      IF f.net = "ok" /\ f.status \notin 200..299 THEN f.body ELSE @]

\* Respond for a handler that ends without sending anything
RespondNothing(r, resp) ==
  /\ pc' = [pc EXCEPT ![r] = "done"]
  /\ UNCHANGED responses

\* the handler sends a response and ends
Respond(r, resp) ==
  /\ responses' = [responses EXCEPT ![r] = Append(@, resp)]
  /\ pc' = [pc EXCEPT ![r] = "done"]

\* the handler issues an upstream call and is suspended on its answer
Issue(r, call, at) ==
  /\ calls' = [calls EXCEPT ![r] = Append(@, call)]
  /\ pc' = [pc EXCEPT ![r] = at]

(***************************************************************************)
(* POST /chat/start (server.js 109-116)                                    *)
(***************************************************************************)
\* StartReceived of a relay that remembers a thread it has created and
\* hands it out again
StartReceivedCached(r) ==
  /\ pc[r] = "idle"
  /\ route' = [route EXCEPT ![r] = "start"]
  /\ IF \E q \in DOMAIN pc : created[q] # Undefined
       THEN /\ Respond(r, Response(200, Undefined, NoData,
                                   created[CHOOSE q \in DOMAIN pc : created[q] # Undefined],
                                   Undefined))
            /\ UNCHANGED calls
       ELSE /\ Issue(r, createThread, "awaitCreateThread")
            /\ UNCHANGED responses
  /\ UNCHANGED <<reqBody, tid, runId, i, waited, lastRun, polled, upFail,
                 unparsed, upFailBody, listed, created>>

StartReceived(r) ==
  /\ pc[r] = "idle"
  /\ route' = [route EXCEPT ![r] = "start"]
  /\ Issue(r, createThread, "awaitCreateThread")
  /\ UNCHANGED responses
  /\ UNCHANGED <<reqBody, tid, runId, i, waited, lastRun, polled, upFail,
                 unparsed, upFailBody, listed, created>>

ReceiveStart(r) ==
  /\ StartReceived(r)
  /\ UNCHANGED <<closed, up, fetched, outcome>>

StartCreateThreadReturned(r, f) ==
  /\ pc[r] = "awaitCreateThread"
  /\ route[r] = "start"
  /\ LET o == Deref(openAI(f), "id") IN
         /\ Note(r, f)
         /\ created' = [created EXCEPT ![r] = CreatedId(f)]
         /\ IF o.threw
              THEN Respond(r, StartCatch(o.err))
              ELSE Respond(r, Response(200, Undefined, NoData, ThreadIdOf(o.data),
                                       Undefined))
  /\ UNCHANGED <<route, reqBody, tid, runId, i, calls, waited, lastRun, polled, listed>>

StartCreateThreadReturns(r) ==
  /\ pc[r] = "awaitCreateThread"
  /\ route[r] = "start"
  /\ \E f \in FetchResults("createThread") : StartCreateThreadReturned(r, f)
  /\ UNCHANGED <<closed, up, fetched, outcome>>

(***************************************************************************)
(* POST /chat/send (server.js 118-139)                                     *)
(***************************************************************************)
SendReceived(r, b) ==
  /\ pc[r] = "idle"
  /\ route' = [route EXCEPT ![r] = "send"]
  /\ reqBody' = [reqBody EXCEPT ![r] = b]
  /\ IF InvalidMessage(b.message)
       THEN /\ Respond(r, BadRequest)
            /\ UNCHANGED <<tid, calls>>
       ELSE IF ReuseThread(b.threadId)
         THEN /\ tid' = [tid EXCEPT ![r] = b.threadId]
              /\ Issue(r, addUserMessage(b.threadId, b.message), "awaitAddMessage")
              /\ UNCHANGED responses
         ELSE /\ Issue(r, createThread, "awaitCreateThread")
              /\ UNCHANGED <<tid, responses>>
  /\ UNCHANGED <<runId, i, waited, lastRun, polled, upFail, unparsed, upFailBody, listed,
                 created>>

ReceiveSend(r) ==
  /\ pc[r] = "idle"
  /\ \E b \in Bodies : SendReceived(r, b)
  /\ UNCHANGED <<closed, up, fetched, outcome>>

\* line 126: (await createThread()).id, then line 128
SendCreateThreadReturned(r, f) ==
  /\ pc[r] = "awaitCreateThread"
  /\ route[r] = "send"
  /\ LET o == Deref(openAI(f), "id") IN
         /\ Note(r, f)
         /\ created' = [created EXCEPT ![r] = CreatedId(f)]
         /\ IF o.threw
              THEN /\ Respond(r, SendCatch(o.err))
                   /\ UNCHANGED <<tid, calls>>
              ELSE /\ tid' = [tid EXCEPT ![r] = ThreadIdOf(o.data)]
                   /\ Issue(r, addUserMessage(ThreadIdOf(o.data), reqBody[r].message),
                            "awaitAddMessage")
                   /\ UNCHANGED responses
  /\ UNCHANGED <<route, reqBody, runId, i, waited, lastRun, polled, listed>>

SendCreateThreadReturns(r) ==
  /\ pc[r] = "awaitCreateThread"
  /\ route[r] = "send"
  /\ \E f \in FetchResults("createThread") : SendCreateThreadReturned(r, f)
  /\ UNCHANGED <<closed, up, fetched, outcome>>

\* line 128 returns, then line 129
AddMessageReturned(r, f) ==
  /\ pc[r] = "awaitAddMessage"
  /\ LET o == openAI(f) IN
         /\ Note(r, f)
         /\ IF o.threw
              THEN /\ Respond(r, SendCatch(o.err))
                   /\ UNCHANGED calls
              ELSE /\ Issue(r, createRun(tid[r]), "awaitCreateRun")
                   /\ UNCHANGED responses
  /\ UNCHANGED <<route, reqBody, tid, runId, i, waited, lastRun, polled, listed, created>>

AddMessageReturns(r) ==
  /\ pc[r] = "awaitAddMessage"
  /\ \E f \in FetchResults("addUserMessage") : AddMessageReturned(r, f)
  /\ UNCHANGED <<closed, up, fetched, outcome>>

\* line 129 returns, then waitForRunComplete(tid, run.id) up to its first getRun
CreateRunReturned(r, f) ==
  /\ pc[r] = "awaitCreateRun"
  /\ LET o == Deref(openAI(f), "id") IN
         /\ Note(r, f)
         /\ IF o.threw
              THEN /\ Respond(r, SendCatch(o.err))
                   /\ UNCHANGED <<runId, i, calls>>
              ELSE /\ runId' = [runId EXCEPT ![r] = o.data.id]
                   /\ i' = [i EXCEPT ![r] = 0]
                   /\ Issue(r, getRun(tid[r], o.data.id), "awaitGetRun")
                   /\ UNCHANGED responses
  /\ UNCHANGED <<route, reqBody, tid, waited, lastRun, polled, listed, created>>

CreateRunReturns(r) ==
  /\ pc[r] = "awaitCreateRun"
  /\ \E f \in FetchResults("createRun") : CreateRunReturned(r, f)
  /\ UNCHANGED <<closed, up, fetched, outcome>>

(***************************************************************************)
(* waitForRunComplete (server.js 81-91)                                    *)
(***************************************************************************)
\* the statuses after which the upstream changes a run no more
TerminalStatuses ==
  {Str("completed"), Str("failed"), Str("cancelled"), Str("expired")}

Count(run, p) ==
  IF run.status \in TerminalStatuses
    THEN [p EXCEPT !.terminal = @ + 1]
    ELSE [p EXCEPT !.pending = @ + 1]

\* line 83 returns, then lines 84-88 (and line 132 when the run completed)
GetRunReturned(r, f) ==
  /\ pc[r] = "awaitGetRun"
  /\ LET o == Deref(openAI(f), "status")
           run == o.data
       IN
         /\ Note(r, f)
         /\ IF o.threw
              THEN /\ Respond(r, SendCatch(o.err))
                   /\ UNCHANGED <<calls, lastRun, polled>>
              ELSE /\ lastRun' = [lastRun EXCEPT ![r] =
                                   [status |-> run.status,
                                    lastErrMsg |-> run.lastErrMsg]]
                   /\ polled' = [polled EXCEPT ![r] = Count(run, @)]
                   /\ IF IsCompleted(run.status)
                        THEN /\ Issue(r, listMessages(tid[r], ListLimit),
                                      "awaitListMessages")
                             /\ UNCHANGED responses
                        ELSE IF IsRunFailure(run.status)
                          THEN /\ Respond(r, SendCatch(PlainError(RunFailureMessage(run))))
                               /\ UNCHANGED calls
                          ELSE /\ pc' = [pc EXCEPT ![r] = "sleeping"]
                               /\ UNCHANGED <<calls, responses>>
  /\ UNCHANGED <<route, reqBody, tid, runId, i, waited, listed, created>>

GetRunReturns(r) ==
  /\ pc[r] = "awaitGetRun"
  /\ \E f \in FetchResults("getRun") : GetRunReturned(r, f)
  /\ UNCHANGED <<closed, up, fetched, outcome>>

\* line 88 returns, i++, then line 82 and either line 83 or line 90
\* SleepFired of a poller whose loop counter is one variable of the module
SleepFiredSharedCounter(r) ==
  /\ pc[r] = "sleeping"
  /\ waited' = [waited EXCEPT ![r] = @ + SleepMs]
  /\ i' = [q \in DOMAIN i |-> i[r] + 1]
  /\ IF i[r] + 1 < MaxAttempts
       THEN /\ Issue(r, getRun(tid[r], runId[r]), "awaitGetRun")
            /\ UNCHANGED responses
       ELSE /\ Respond(r, SendCatch(PlainError("Timed out waiting for assistant response")))
            /\ UNCHANGED calls
  /\ UNCHANGED <<route, reqBody, tid, runId, lastRun, polled, upFail, unparsed,
                 upFailBody, listed, created>>

SleepFired(r) ==
  /\ pc[r] = "sleeping"
  /\ waited' = [waited EXCEPT ![r] = @ + SleepMs]
  /\ i' = [i EXCEPT ![r] = @ + 1]
  /\ IF i[r] + 1 < MaxAttempts
       THEN /\ Issue(r, getRun(tid[r], runId[r]), "awaitGetRun")
            /\ UNCHANGED responses
       ELSE /\ Respond(r, SendCatch(PlainError("Timed out waiting for assistant response")))
            /\ UNCHANGED calls
  /\ UNCHANGED <<route, reqBody, tid, runId, lastRun, polled, upFail, unparsed,
                 upFailBody, listed, created>>

SleepFires(r) ==
  /\ SleepFired(r)
  /\ UNCHANGED <<closed, up, fetched, outcome>>

\* line 132 returns with the answer f, then lines 133-135
ListReturned(r, f) ==
  /\ pc[r] = "awaitListMessages"
  /\ LET o == openAI(f) IN
       /\ Note(r, f)
       /\ IF o.threw
            THEN /\ Respond(r, SendCatch(o.err))
                 /\ UNCHANGED listed
            ELSE /\ listed' = [listed EXCEPT ![r] = o.data.data]
                 /\ Respond(r, Response(200, Undefined, NoData, tid[r],
                                        ReplyOrEmpty(extractLatestAssistantText(o.data))))
  /\ UNCHANGED <<route, reqBody, tid, runId, i, calls, waited, lastRun, polled, created>>

ListMessagesReturns(r) ==
  /\ pc[r] = "awaitListMessages"
  /\ \E f \in FetchResults("listMessages") : ListReturned(r, f)
  /\ UNCHANGED <<closed, up, fetched, outcome>>

Next ==
  \E r \in Reqs :
    \/ ReceiveStart(r)
    \/ StartCreateThreadReturns(r)
    \/ ReceiveSend(r)
    \/ SendCreateThreadReturns(r)
    \/ AddMessageReturns(r)
    \/ CreateRunReturns(r)
    \/ GetRunReturns(r)
    \/ SleepFires(r)
    \/ ListMessagesReturns(r)

Spec == Init /\ [][Next]_vars

(***************************************************************************)
(* The reply extractor on every message list within the bounds: a request  *)
(* with message "hi" on thread "t_client" whose run completed on the first *)
(* status fetch is suspended on list-messages, and the upstream answers    *)
(* with any list.                                                          *)
(***************************************************************************)
InitExtract ==
  /\ pc = [r \in Reqs |-> "awaitListMessages"]
  /\ route = [r \in Reqs |-> "send"]
  /\ reqBody = [r \in Reqs |-> [threadId |-> Str("t_client"), message |-> Str("hi")]]
  /\ tid = [r \in Reqs |-> Str("t_client")]
  /\ runId = [r \in Reqs |-> Str("run_1")]
  /\ i = [r \in Reqs |-> 0]
  /\ calls = [r \in Reqs |->
               << addUserMessage(Str("t_client"), Str("hi")),
                  createRun(Str("t_client")),
                  getRun(Str("t_client"), Str("run_1")),
                  listMessages(Str("t_client"), ListLimit) >>]
  /\ responses = [r \in Reqs |-> <<>>]
  /\ waited = [r \in Reqs |-> 0]
  /\ lastRun = [r \in Reqs |-> [status |-> Str("completed"), lastErrMsg |-> Undefined]]
  /\ polled = [r \in Reqs |-> [pending |-> 0, terminal |-> 1]]
  /\ upFail = [r \in Reqs |-> NoFetch]
  /\ unparsed = [r \in Reqs |-> FALSE]
  /\ listed = [r \in Reqs |-> NoList]
  /\ created = [r \in Reqs |-> Undefined]
  /\ upFailBody = [r \in Reqs |-> NoBody]
  /\ closed = [r \in Reqs |-> FALSE]
  /\ up = NoUpstream
  /\ fetched = NoFetched
  /\ outcome = NoOutcome

ExtractFetches ==
  {[net |-> "ok", status |-> 200, body |-> [fmt |-> "json", json |-> j, text |-> "json"]] :
     j \in AllListJson}

ListAnyReturns(r) ==
  /\ pc[r] = "awaitListMessages"
  /\ \E f \in ExtractFetches : ListReturned(r, f)
  /\ UNCHANGED <<closed, up, fetched, outcome>>

NextExtract == \E r \in Reqs : ListAnyReturns(r)

SpecExtract == InitExtract /\ [][NextExtract]_vars

(***************************************************************************)
(* Termination.  The client of a request under way may go away at any      *)
(* time; neither handler listens for it (no `close` listener on req, no     *)
(* abort signal given to fetch), so the handler's state is untouched.  Each *)
(* upstream call returns and each timer fires: the steps that take an      *)
(* answer or end a wait are weakly fair.                                   *)
(***************************************************************************)
\* a relay that drops the request when its client goes away
ClientDisconnectsAborts(r) ==
  /\ pc[r] \notin {"idle", "done"}
  /\ ~closed[r]
  /\ closed' = [closed EXCEPT ![r] = TRUE]
  /\ pc' = [pc EXCEPT ![r] = "aborted"]
  /\ UNCHANGED <<route, reqBody, tid, runId, i, calls, responses, waited, lastRun,
                 polled, upFail, unparsed, listed, created, upFailBody, up, fetched,
                 outcome>>

ClientDisconnects(r) ==
  /\ pc[r] \notin {"idle", "done"}
  /\ ~closed[r]
  /\ closed' = [closed EXCEPT ![r] = TRUE]
  /\ UNCHANGED <<pc, route, reqBody, tid, runId, i, calls, responses, waited, lastRun,
                 polled, upFail, unparsed, listed, created, upFailBody, up, fetched,
                 outcome>>

NextLive ==
  \E r \in Reqs :
    \/ ReceiveStart(r)
    \/ StartCreateThreadReturns(r)
    \/ ReceiveSend(r)
    \/ SendCreateThreadReturns(r)
    \/ AddMessageReturns(r)
    \/ CreateRunReturns(r)
    \/ GetRunReturns(r)
    \/ SleepFires(r)
    \/ ListMessagesReturns(r)
    \/ ClientDisconnects(r)

Fairness ==
  \A r \in Reqs :
    /\ WF_vars(StartCreateThreadReturns(r))
    /\ WF_vars(SendCreateThreadReturns(r))
    /\ WF_vars(AddMessageReturns(r))
    /\ WF_vars(CreateRunReturns(r))
    /\ WF_vars(GetRunReturns(r))
    /\ WF_vars(SleepFires(r))
    /\ WF_vars(ListMessagesReturns(r))

SpecLive == Init /\ [][NextLive]_vars /\ Fairness

(***************************************************************************)
(* Two requests handled at once against an upstream that keeps threads and *)
(* runs.  Every handler step above reads and writes the entries of its own *)
(* request only, so the same steps are taken over two requests.  The       *)
(* upstream issues a fresh id per thread and per run, refuses a message or *)
(* a run on a thread whose run is still active, answers a status fetch     *)
(* with the run's status, and lists a thread's messages newest first.  A   *)
(* run completes at any time and then puts one assistant message on its    *)
(* thread.  A call takes effect upstream when its answer is delivered.     *)
(***************************************************************************)
Reqs2 == {"r1", "r2"}

\* how many status fetches of one request the upstream answers `queued`
MaxPending == 2

UpThreadIds == {"t_client"} \cup {"t_" \o ToString(n) : n \in 1..Cardinality(Reqs2)}

UpRunIds == {"run_" \o ToString(n) : n \in 1..Cardinality(Reqs2)}

NoThread == [exists |-> FALSE, msgs |-> <<>>, active |-> ""]

UpMessage(role, text, run) == [role |-> role, text |-> text, run |-> run]

\* the thread the client knows has an earlier turn on it
InitUpstream ==
  [nThreads |-> 0, nRuns |-> 0,
   threads |-> [t \in UpThreadIds |->
                 IF t = "t_client"
                   THEN [exists |-> TRUE, active |-> "",
                         msgs |-> <<UpMessage("assistant", "re:run_0", "run_0"),
                                    UpMessage("user", "first", "")>>]
                   ELSE NoThread],
   runs |-> [k \in UpRunIds |-> [status |-> "none", thread |-> ""]]]

\* answers of the upstream
Ok(json) ==
  [net |-> "ok", status |-> 200, body |-> [fmt |-> "json", json |-> json, text |-> "json"]]

Refusal(status, msg) ==
  [net |-> "ok", status |-> status,
   body |-> [fmt |-> "json", json |-> [EmptyObj EXCEPT !.errMsg = Str(msg)],
             text |-> "json"]]

NotFound == Refusal(404, "No such thread or run")

\* a thread's messages as the list payload carries them
AsList(msgs) ==
  [isArray |-> TRUE,
   items |-> [k \in 1..Len(msgs) |->
               [role |-> msgs[k].role,
                content |-> [isArray |-> TRUE,
                             items |-> <<[type |-> "text",
                                          value |-> Str(msgs[k].text)]>>]]]]

FirstN(seq, n) == SubSeq(seq, 1, IF Len(seq) < n THEN Len(seq) ELSE n)

\* the existing threads (and runs) a call's path names
ThreadsAt(call, suffix) ==
  {t \in UpThreadIds : up.threads[t].exists /\ call.path = "/threads/" \o t \o suffix}

RunsAt(call) ==
  {tk \in UpThreadIds \X UpRunIds :
     /\ up.runs[tk[2]].status # "none" /\ up.runs[tk[2]].thread = tk[1]
     /\ call.path = "/threads/" \o tk[1] \o "/runs/" \o tk[2]}

\* the upstream takes a call: its answer f and its state after
Upstream(call) ==
  CASE call.op = "createThread" ->
         LET id == "t_" \o ToString(up.nThreads + 1) IN
           [f |-> Ok([EmptyObj EXCEPT !.id = Str(id)]),
            up |-> [up EXCEPT !.nThreads = @ + 1,
                              !.threads[id] = [NoThread EXCEPT !.exists = TRUE]]]
    [] call.op = "addUserMessage" ->
         LET ts == ThreadsAt(call, "/messages") IN
           IF ts = {} THEN [f |-> NotFound, up |-> up]
           ELSE LET t == CHOOSE t \in ts : TRUE IN
             IF up.threads[t].active # ""
               THEN [f |-> Refusal(400, "Thread has an active run"), up |-> up]
               ELSE [f |-> Ok([EmptyObj EXCEPT !.id = Str("msg")]),
                     up |-> [up EXCEPT !.threads[t].msgs =
                                         <<UpMessage("user", call.text, "")>> \o @]]
    [] call.op = "createRun" ->
         LET ts == ThreadsAt(call, "/runs") IN
           IF ts = {} THEN [f |-> NotFound, up |-> up]
           ELSE LET t == CHOOSE t \in ts : TRUE
                    id == "run_" \o ToString(up.nRuns + 1)
                IN
             IF up.threads[t].active # ""
               THEN [f |-> Refusal(400, "Thread has an active run"), up |-> up]
               ELSE [f |-> Ok([EmptyObj EXCEPT !.id = Str(id), !.status = Str("queued")]),
                     up |-> [up EXCEPT !.nRuns = @ + 1,
                                       !.threads[t].active = id,
                                       !.runs[id] = [status |-> "queued", thread |-> t]]]
    [] call.op = "getRun" ->
         LET tks == RunsAt(call) IN
           IF tks = {} THEN [f |-> NotFound, up |-> up]
           ELSE LET k == (CHOOSE tk \in tks : TRUE)[2] IN
             [f |-> Ok([EmptyObj EXCEPT !.id = Str(k), !.status = Str(up.runs[k].status)]),
              up |-> up]
    [] call.op = "listMessages" ->
         LET ts == ThreadsAt(call, "/messages?limit=" \o ToString(ListLimit)) IN
           IF ts = {} THEN [f |-> NotFound, up |-> up]
           ELSE LET t == CHOOSE t \in ts : TRUE IN
             [f |-> Ok([EmptyObj EXCEPT
                          !.data = AsList(FirstN(up.threads[t].msgs, ListLimit))]),
              up |-> up]

\* the call whose answer the handler is suspended on
CallAwaited(r) == calls[r][Len(calls[r])]

InitTwo ==
  /\ NoRequests(Reqs2)
  /\ up = InitUpstream
  /\ fetched = NoFetched
  /\ outcome = NoOutcome

\* the requests of two clients: no thread named, the thread they share, or
\* the first thread the upstream creates
TwoBodies ==
  {[threadId |-> t, message |-> Str("hi")] :
     t \in {Undefined, Str("t_client"), Str("t_1")}}

TwoReceiveSend(r) ==
  /\ pc[r] = "idle"
  /\ \E b \in TwoBodies : SendReceived(r, b)
  /\ UNCHANGED <<closed, up, fetched, outcome>>

TwoStartCreateThreadReturns(r) ==
  /\ pc[r] = "awaitCreateThread"
  /\ route[r] = "start"
  /\ \E a \in {Upstream(CallAwaited(r))} :
       StartCreateThreadReturned(r, a.f) /\ up' = a.up
  /\ UNCHANGED <<closed, fetched, outcome>>

TwoSendCreateThreadReturns(r) ==
  /\ pc[r] = "awaitCreateThread"
  /\ route[r] = "send"
  /\ \E a \in {Upstream(CallAwaited(r))} :
       SendCreateThreadReturned(r, a.f) /\ up' = a.up
  /\ UNCHANGED <<closed, fetched, outcome>>

TwoAddMessageReturns(r) ==
  /\ pc[r] = "awaitAddMessage"
  /\ \E a \in {Upstream(CallAwaited(r))} :
       AddMessageReturned(r, a.f) /\ up' = a.up
  /\ UNCHANGED <<closed, fetched, outcome>>

TwoCreateRunReturns(r) ==
  /\ pc[r] = "awaitCreateRun"
  /\ \E a \in {Upstream(CallAwaited(r))} :
       CreateRunReturned(r, a.f) /\ up' = a.up
  /\ UNCHANGED <<closed, fetched, outcome>>

\* the run is still queued for at most MaxPending fetches of a request
TwoGetRunReturns(r) ==
  /\ pc[r] = "awaitGetRun"
  /\ \E a \in {Upstream(CallAwaited(r))} :
       /\ a.f.body.json.status = Str("queued") => polled[r].pending < MaxPending
       /\ GetRunReturned(r, a.f) /\ up' = a.up
  /\ UNCHANGED <<closed, fetched, outcome>>

TwoListMessagesReturns(r) ==
  /\ pc[r] = "awaitListMessages"
  /\ \E a \in {Upstream(CallAwaited(r))} :
       ListReturned(r, a.f) /\ up' = a.up
  /\ UNCHANGED <<closed, fetched, outcome>>

\* the upstream completes a run: the assistant's message goes on the thread
RunCompletes(k) ==
  /\ up.runs[k].status = "queued"
  /\ LET t == up.runs[k].thread IN
       up' = [up EXCEPT !.runs[k].status = "completed",
                        !.threads[t].active = "",
                        !.threads[t].msgs = <<UpMessage("assistant", "re:" \o k, k)>> \o @]
  /\ UNCHANGED <<pc, route, reqBody, tid, runId, i, calls, responses, waited, lastRun,
                 polled, upFail, unparsed, listed, created, upFailBody, closed, fetched,
                 outcome>>

\* the upstream gives a run up: no message goes on the thread
RunFails(k) ==
  /\ up.runs[k].status = "queued"
  /\ up' = [up EXCEPT !.runs[k].status = "failed",
                      !.threads[up.runs[k].thread].active = ""]
  /\ UNCHANGED <<pc, route, reqBody, tid, runId, i, calls, responses, waited, lastRun,
                 polled, upFail, unparsed, listed, created, upFailBody, closed, fetched,
                 outcome>>

NextTwo ==
  \/ \E r \in Reqs2 :
       \/ ReceiveStart(r)
       \/ TwoStartCreateThreadReturns(r)
       \/ TwoReceiveSend(r)
       \/ TwoSendCreateThreadReturns(r)
       \/ TwoAddMessageReturns(r)
       \/ TwoCreateRunReturns(r)
       \/ TwoGetRunReturns(r)
       \/ SleepFires(r)
       \/ TwoListMessagesReturns(r)
  \/ \E k \in UpRunIds : RunCompletes(k)
  \/ \E k \in UpRunIds : RunFails(k)

SpecTwo == InitTwo /\ [][NextTwo]_vars

(***************************************************************************)
(* openAI on its own (server.js 29-48): fetch resolved with any status     *)
(* around the 2xx range and any body, or rejected, and openAI returns or   *)
(* throws.                                                                 *)
(***************************************************************************)
OpenAIStatuses == {199, 200, 204, 299, 300, 404, 500}

OpenAIFetches ==
  {[net |-> "ok", status |-> st, body |-> b] :
     st \in OpenAIStatuses,
     b \in BodiesOf(UNION {JsonFor(op) : op \in {"createThread", "addUserMessage",
                                                  "createRun", "getRun", "listMessages"}})}
    \cup {[net |-> "reject", status |-> 0,
           body |-> [fmt |-> "empty", json |-> NoData, text |-> ""]]}

InitOpenAI ==
  /\ NoRequests(Reqs)
  /\ up = NoUpstream
  /\ fetched \in OpenAIFetches
  /\ outcome = NoOutcome

\* lines 36-47
OpenAIReturns ==
  /\ ~outcome.returned
  /\ LET o == openAI(fetched) IN
       outcome' = [returned |-> TRUE, threw |-> o.threw, err |-> o.err, data |-> o.data]
  /\ UNCHANGED <<pc, route, reqBody, tid, runId, i, calls, responses, waited, lastRun,
                 polled, upFail, unparsed, listed, created, upFailBody, closed, up,
                 fetched>>

NextOpenAI == OpenAIReturns

SpecOpenAI == InitOpenAI /\ [][NextOpenAI]_vars

(***************************************************************************)
(* Properties.  They are stated over the calls made, the responses sent    *)
(* and what the upstream answered.                                         *)
(***************************************************************************)
\* how many of the request's upstream calls were made by operation op
NCalls(r, op) == Len(SelectSeq(calls[r], LAMBDA c : c.op = op))

LastCall(r) == calls[r][Len(calls[r])]

\* the request got exactly one response, and this is it
Answered(r) == pc[r] = "done" /\ Len(responses[r]) = 1

TheResponse(r) == responses[r][1]

IsErrorResponse(resp) == resp.error # Undefined

\* the request's message passed for a message: a string that is not empty
SentMessage(r) ==
  /\ route[r] = "send"
  /\ reqBody[r].message.t = "string"
  /\ reqBody[r].message.v # ""

\* C1: a /chat/send request whose message is missing or is not a string is
\* answered 400 and no upstream call is made for it.
C1_NoMessageNoCalls ==
  \A r \in Reqs :
    (route[r] = "send" /\ reqBody[r].message.t # "string")
      => /\ Answered(r)
         /\ TheResponse(r).status = 400
         /\ IsErrorResponse(TheResponse(r))
         /\ calls[r] = <<>>

\* a request whose message is the number 42 has been answered
C1_Witness ==
  \E r \in Reqs :
    route[r] = "send" /\ reqBody[r].message = Num("42") /\ pc[r] = "done"

\* C2: for a /chat/send request with a message and no threadId, thread
\* creation is called exactly once and is the first call, every message
\* append targets the id the upstream created, and a success response carries
\* that id as threadId.
C2_CreateThenAppend ==
  \A r \in Reqs :
    (SentMessage(r) /\ reqBody[r].threadId = Undefined)
      => /\ NCalls(r, "createThread") = 1
         /\ calls[r][1].op = "createThread"
         /\ calls[r][1].method = "POST" /\ calls[r][1].path = "/threads"
         /\ NCalls(r, "addUserMessage") <= 1
         /\ \A k \in 1..Len(calls[r]) :
              calls[r][k].op = "addUserMessage"
                => /\ k = 2
                   /\ calls[r][k].path = "/threads/" \o created[r].v \o "/messages"
                   /\ calls[r][k].text = reqBody[r].message.v
         /\ (pc[r] = "done" /\ ~IsErrorResponse(TheResponse(r)))
              => /\ TheResponse(r).status = 200
                 /\ TheResponse(r).threadId = created[r]

\* a request without threadId succeeded on the thread the upstream created
C2_Witness ==
  \E r \in Reqs :
    /\ SentMessage(r) /\ reqBody[r].threadId = Undefined
    /\ created[r] = Str("t_new")
    /\ pc[r] = "done" /\ TheResponse(r).status = 200
    /\ TheResponse(r).threadId = Str("t_new")

\* C3: when the status fetches returned a non-terminal status N-1 times and
\* then `completed` (N <= 40), exactly N status fetches were made, followed by
\* exactly one list-messages call.
C3_CompletedOnNthPoll ==
  \A r \in Reqs :
    lastRun[r].status = Str("completed")
      => /\ polled[r].terminal = 1
         /\ polled[r].pending + 1 <= 40
         /\ NCalls(r, "getRun") = polled[r].pending + 1
         /\ NCalls(r, "listMessages") = 1
         /\ LastCall(r).op = "listMessages"
         /\ pc[r] \in {"awaitListMessages", "done"}

\* the run completed on the 40th status fetch and the request succeeded
C3_Witness ==
  \E r \in Reqs :
    /\ lastRun[r].status = Str("completed")
    /\ polled[r].pending = 39
    /\ pc[r] = "done" /\ TheResponse(r).status = 200

\* C4: no request makes a 41st status fetch; when 40 status fetches returned
\* a non-terminal status the request has made exactly 40 of them and no
\* list-messages call, and it ends with the timeout error.
C4_TimeoutAfter40 ==
  \A r \in Reqs :
    /\ NCalls(r, "getRun") <= 40
    /\ polled[r].pending = 40
         => /\ pc[r] \in {"sleeping", "done"}
            /\ NCalls(r, "getRun") = 40
            /\ NCalls(r, "listMessages") = 0
            /\ pc[r] = "done"
                 => /\ Len(responses[r]) = 1
                    /\ TheResponse(r).error
                         = Str("Timed out waiting for assistant response")
    /\ (pc[r] = "done" /\ TheResponse(r).error
                            = Str("Timed out waiting for assistant response"))
         => polled[r].pending = 40

\* the request ended with the timeout error
C4_Witness ==
  \E r \in Reqs :
    /\ pc[r] = "done" /\ polled[r].pending = 40
    /\ TheResponse(r).error = Str("Timed out waiting for assistant response")

\* C5: when a status fetch returns failed, cancelled or expired, the request
\* ends at once: that fetch is its last upstream call, no list-messages call
\* is made, and the error is the upstream's last_error.message when there is
\* one (a non-empty one), otherwise "Run <status>"; `failed` with "boom" on the
\* first fetch gives one fetch and the error "boom".
C5_RunFailureStops ==
  \A r \in Reqs :
    lastRun[r].status \in {Str("failed"), Str("cancelled"), Str("expired")}
      => /\ Answered(r)
         /\ polled[r].terminal = 1
         /\ NCalls(r, "getRun") = polled[r].pending + 1
         /\ LastCall(r).op = "getRun"
         /\ NCalls(r, "listMessages") = 0
         /\ TheResponse(r).error =
              IF lastRun[r].lastErrMsg \notin {Undefined, Str("")}
                THEN lastRun[r].lastErrMsg
                ELSE Str("Run " \o lastRun[r].status.v)
         /\ (lastRun[r] = [status |-> Str("failed"), lastErrMsg |-> Str("boom")]
               /\ polled[r].pending = 0)
              => NCalls(r, "getRun") = 1 /\ TheResponse(r).error = Str("boom")

\* the first status fetch returned failed with "boom"
C5_Witness ==
  \E r \in Reqs :
    /\ lastRun[r] = [status |-> Str("failed"), lastErrMsg |-> Str("boom")]
    /\ polled[r].pending = 0
    /\ pc[r] = "done"

(***************************************************************************)
(* The reply a message list stands for, by a scan from its head: the       *)
(* first assistant message decides, and within it the first text block     *)
(* with a non-empty value.                                                 *)
(***************************************************************************)
RECURSIVE FirstText(_)
FirstText(blocks) ==
  IF blocks = <<>> THEN Undefined
  ELSE IF Head(blocks).type = "text" /\ Head(blocks).value \notin {Undefined, Str("")}
    THEN Head(blocks).value
    ELSE FirstText(Tail(blocks))

RECURSIVE ReplyOf(_)
ReplyOf(msgs) ==
  IF msgs = <<>> THEN Undefined
  ELSE IF Head(msgs).role = "assistant"
    THEN FirstText(Head(msgs).content.items)
    ELSE ReplyOf(Tail(msgs))

\* C6: the reply of a 200 response is the value of the first text block with
\* a non-empty value inside the first assistant message of the listed
\* messages, and the empty string when there is no assistant message or that
\* message has no such block.
C6_ReplyIsFirstAssistantText ==
  \A r \in Reqs :
    (route[r] = "send" /\ pc[r] = "done" /\ ~IsErrorResponse(TheResponse(r)))
      => /\ TheResponse(r).status = 200
         /\ TheResponse(r).reply =
              IF ReplyOf(listed[r].items) = Undefined
                THEN Str("")
                ELSE ReplyOf(listed[r].items)

\* the newest assistant message has no text, an older one has: the reply is empty
C6_Witness ==
  \E r \in Reqs :
    /\ pc[r] = "done"
    /\ Len(listed[r].items) = 2
    /\ listed[r].items[1].role = "assistant"
    /\ listed[r].items[1].content.items = <<[type |-> "image_file", value |-> Undefined]>>
    /\ listed[r].items[2].role = "assistant"
    /\ listed[r].items[2].content.items = <<[type |-> "text", value |-> Str("bye")]>>
    /\ TheResponse(r).reply = Str("")

\* C7: a failed /chat/send sequence is answered with the status of the
\* upstream answer when the failure is an upstream answer outside 2xx, and
\* with 500 otherwise; a run failure and the poll timeout are answered 500.
C7_FailureStatus ==
  \A r \in Reqs :
    (route[r] = "send" /\ pc[r] = "done" /\ calls[r] # <<>>)
      => /\ Len(responses[r]) = 1
         /\ upFail[r].net = "ok"
              => /\ IsErrorResponse(TheResponse(r))
                 /\ TheResponse(r).status = upFail[r].status
         /\ (upFail[r].net # "ok" /\ IsErrorResponse(TheResponse(r)))
              => TheResponse(r).status = 500
         /\ upFail[r].net = "reject" => IsErrorResponse(TheResponse(r))
         /\ lastRun[r].status \in {Str("failed"), Str("cancelled"), Str("expired")}
              => IsErrorResponse(TheResponse(r)) /\ TheResponse(r).status = 500
         /\ (polled[r].pending = 40 /\ upFail[r] = NoFetch)
              => IsErrorResponse(TheResponse(r)) /\ TheResponse(r).status = 500

\* a status fetch after some pending ones was answered 404, and so was the client
C7_Witness ==
  \E r \in Reqs :
    /\ route[r] = "send" /\ pc[r] = "done"
    /\ polled[r].pending > 0
    /\ LastCall(r).op = "getRun"
    /\ upFail[r].status = 404
    /\ TheResponse(r).status = 404

\* C8 as stated: once an upstream answer had a body that is no JSON, the
\* request does not end with a 200 response.
C8_UnparseableNever200 ==
  \A r \in Reqs :
    (unparsed[r] /\ pc[r] = "done") => TheResponse(r).status # 200

\* C8, amended: an upstream answer outside 2xx whose body is no JSON ends the
\* request with an error response that has the raw text in details and the
\* upstream's status on /chat/send, 500 on /chat/start; a 2xx answer to
\* /chat/start's thread creation whose body is no JSON is no failure, the
\* response is 200 without a threadId.
C8_UnparseableErrorAnswer ==
  \A r \in Reqs :
    /\ (upFail[r].net = "ok" /\ upFail[r].fmt = "garbage")
      => /\ Answered(r)
         /\ IsErrorResponse(TheResponse(r))
         /\ TheResponse(r).status # 200
         /\ TheResponse(r).status = IF route[r] = "send" THEN upFail[r].status ELSE 500
         /\ TheResponse(r).details.kind = "object"
         /\ TheResponse(r).details.raw = Str("<html>")
         /\ TheResponse(r).error
              = Str("OpenAI request failed (" \o ToString(upFail[r].status) \o ")")
    /\ (route[r] = "start" /\ pc[r] = "done" /\ unparsed[r] /\ upFail[r] = NoFetch)
         => /\ TheResponse(r).status = 200
            /\ TheResponse(r).threadId = Undefined

\* list-messages was answered 500 with a body that is no JSON
C8_Witness ==
  \E r \in Reqs :
    /\ route[r] = "send" /\ pc[r] = "done"
    /\ calls[r] # <<>> /\ LastCall(r).op = "listMessages"
    /\ upFail[r] = [net |-> "ok", status |-> 500, fmt |-> "garbage"]

\* every call of the request but thread creation is made on thread id t
OnThread(r, t) ==
  \A k \in 1..Len(calls[r]) :
    LET c == calls[r][k] IN
      CASE c.op = "createThread"   -> TRUE
        [] c.op = "addUserMessage" -> c.path = "/threads/" \o t \o "/messages"
        [] c.op = "createRun"      -> c.path = "/threads/" \o t \o "/runs"
        [] c.op = "getRun"         -> c.path = "/threads/" \o t \o "/runs/" \o runId[r].v
        [] c.op = "listMessages"   -> c.path = "/threads/" \o t \o "/messages?limit=20"

\* C9 as stated: a /chat/send request whose threadId is a string, of any
\* content, makes no thread-creation call.
C9_StringThreadIdNeverCreates ==
  \A r \in Reqs :
    (SentMessage(r) /\ reqBody[r].threadId.t = "string")
      => NCalls(r, "createThread") = 0

\* C9, amended: /chat/send creates a thread exactly when threadId is absent,
\* not a string or the empty string; with a non-empty string no thread is
\* created, every call is made on the supplied id and a success response
\* carries it.
C9_NonEmptyThreadIdReused ==
  \A r \in Reqs :
    SentMessage(r)
      => IF reqBody[r].threadId.t = "string" /\ reqBody[r].threadId.v # ""
           THEN /\ NCalls(r, "createThread") = 0
                /\ calls[r] # <<>>
                /\ OnThread(r, reqBody[r].threadId.v)
                /\ (pc[r] = "done" /\ ~IsErrorResponse(TheResponse(r)))
                     => TheResponse(r).threadId = reqBody[r].threadId
           ELSE /\ NCalls(r, "createThread") = 1
                /\ calls[r][1].op = "createThread"

\* a request on thread "t_client" succeeded after a pending status fetch
C9_Witness ==
  \E r \in Reqs :
    /\ SentMessage(r) /\ reqBody[r].threadId = Str("t_client")
    /\ polled[r].pending > 0
    /\ pc[r] = "done" /\ TheResponse(r).status = 200
    /\ TheResponse(r).threadId = Str("t_client")

\* the request was refused by the validation of line 121
Refused(r) ==
  /\ Answered(r)
  /\ TheResponse(r).status = 400
  /\ calls[r] = <<>>

\* C10 as stated: a /chat/send request whose message is a string, of any
\* content, is not refused.
C10_AnyStringAccepted ==
  \A r \in Reqs :
    (route[r] = "send" /\ reqBody[r].message.t = "string") => ~Refused(r)

\* C10, amended: /chat/send answers 400 exactly when message is absent, not a
\* string or the empty string; a non-empty string goes on to the upstream
\* sequence.
C10_RefusedIffNoMessage ==
  \A r \in Reqs :
    route[r] = "send"
      => /\ Refused(r) <=> (reqBody[r].message.t # "string" \/ reqBody[r].message.v = "")
         /\ ~Refused(r) => calls[r] # <<>>

\* a request whose message is the empty string has been refused
C10_Witness ==
  \E r \in Reqs :
    route[r] = "send" /\ reqBody[r].message = Str("") /\ Refused(r)

(***************************************************************************)
(* /chat/start failures, the shape of every response, termination, the    *)
(* order of the calls and the poller.                                      *)
(***************************************************************************)
\* the payload an upstream body carries: its JSON value, the empty object
\* for an empty body, and the text under `raw` for a body that is no JSON
UpstreamPayload(body) ==
  IF body.fmt = "json" THEN body.json
  ELSE IF body.fmt = "empty" THEN EmptyObj
  ELSE [EmptyObj EXCEPT !.raw = Str(body.text)]

\* C12: a /chat/start request whose thread creation failed is answered 500
\* with an error message, whatever status the upstream answered with, and
\* when the upstream answered outside 2xx `details` is the payload of that
\* answer.
C12_StartFailureAlways500 ==
  \A r \in DOMAIN pc :
    (route[r] = "start" /\ pc[r] = "done")
      => /\ Len(responses[r]) = 1
         /\ upFail[r] # NoFetch
              => /\ TheResponse(r).status = 500
                 /\ IsErrorResponse(TheResponse(r))
                 /\ TheResponse(r).threadId = Undefined
         /\ upFail[r].net = "ok"
              => TheResponse(r).details = UpstreamPayload(upFailBody[r])
         /\ TheResponse(r).status \in {200, 500}

\* thread creation was answered 404 with an error payload, the client 500
C12_Witness ==
  \E r \in DOMAIN pc :
    /\ route[r] = "start" /\ pc[r] = "done"
    /\ upFail[r].net = "ok" /\ upFail[r].status = 404
    /\ upFailBody[r].fmt = "json"
    /\ upFailBody[r].json.errMsg = Str("bad request")
    /\ TheResponse(r).status = 500
    /\ TheResponse(r).error = Str("bad request")
    /\ TheResponse(r).details = upFailBody[r].json

\* the thread id a successful response names: the client's when it is a
\* non-empty string, else the one in the upstream's answer to the creation
ExpectedThreadId(r) ==
  IF route[r] = "send" /\ IsString(reqBody[r].threadId) /\ reqBody[r].threadId # Str("")
    THEN reqBody[r].threadId
    ELSE created[r]

\* a response is sent only by the step that ends the handler, and an ended
\* handler sends nothing more and calls nothing more
OneResponseStep ==
  \A r \in DOMAIN pc :
    /\ responses'[r] # responses[r]
         => /\ pc[r] # "done" /\ pc'[r] = "done"
            /\ Len(responses'[r]) = Len(responses[r]) + 1
    /\ pc[r] = "done"
         => /\ pc'[r] = "done"
            /\ responses'[r] = responses[r]
            /\ calls'[r] = calls[r]

\* C13 as stated: every response is an error or a 200 that names a thread id
\* (and, for /chat/send, a string reply).
C13_SuccessNamesThread ==
  \A r \in DOMAIN pc :
    (pc[r] = "done" /\ Len(responses[r]) = 1)
      => \/ IsErrorResponse(TheResponse(r))
         \/ /\ TheResponse(r).status = 200
            /\ TheResponse(r).threadId # Undefined
            /\ route[r] = "send" => IsString(TheResponse(r).reply)

\* C13, amended: a request has at most one response, has it exactly when its
\* handler has ended, and the response is either an error (a status other
\* than 200, a message, no threadId and no reply) or a success: 200, no
\* error, the thread id the handler used, which is absent when the thread
\* was created and the upstream's answer carried no id, and for /chat/send
\* a string reply.  No response is sent before the handler ends and nothing
\* is sent or called after.
C13_ExactlyOneResponse ==
  /\ [](\A r \in DOMAIN pc :
          /\ Len(responses[r]) <= 1
          /\ (Len(responses[r]) = 1) <=> (pc[r] = "done")
          /\ pc[r] = "done"
               => LET resp == TheResponse(r) IN
                    \/ /\ resp.status # 200
                       /\ IsString(resp.error)
                       /\ resp.threadId = Undefined /\ resp.reply = Undefined
                    \/ /\ resp.status = 200
                       /\ resp.error = Undefined /\ resp.details = NoData
                       /\ resp.threadId = ExpectedThreadId(r)
                       /\ IF route[r] = "send" THEN IsString(resp.reply)
                                               ELSE resp.reply = Undefined)
  /\ [][OneResponseStep]_vars

\* a /chat/send that created its thread was answered once, 200 with that
\* thread and a reply, after a pending status fetch
C13_Witness ==
  \E r \in DOMAIN pc :
    /\ route[r] = "send" /\ pc[r] = "done"
    /\ Len(responses[r]) = 1
    /\ polled[r].pending > 0
    /\ TheResponse(r).status = 200
    /\ TheResponse(r).threadId = Str("t_new")
    /\ TheResponse(r).reply = Str("hello")

\* the operations of the calls made for a request, in order
Ops(r) == [k \in 1..Len(calls[r]) |-> calls[r][k].op]

\* the calls of a /chat/send so far are a beginning of: create thread (when
\* the client named no thread), append, create run, status fetches, list
InOrder(r) ==
  LET ops == Ops(r) IN
    /\ \A op \in {"createThread", "addUserMessage", "createRun", "listMessages"} :
         NCalls(r, op) <= 1
    /\ \A k \in 1..Len(ops) :
         /\ ops[k] = "createThread"
              => k = 1 /\ ~(IsString(reqBody[r].threadId) /\ reqBody[r].threadId # Str(""))
         /\ ops[k] = "addUserMessage"
              => \/ k = 1 /\ IsString(reqBody[r].threadId) /\ reqBody[r].threadId # Str("")
                 \/ k = 2 /\ ops[1] = "createThread"
         /\ ops[k] = "createRun" => k > 1 /\ ops[k - 1] = "addUserMessage"
         /\ ops[k] = "getRun" => k > 1 /\ ops[k - 1] \in {"createRun", "getRun"}
         /\ ops[k] = "listMessages"
              => /\ k > 1 /\ ops[k - 1] = "getRun" /\ k = Len(ops)
                 /\ lastRun[r].status = Str("completed")
                 /\ calls[r][k].path = "/threads/" \o tid[r].v \o "/messages?limit=20"

\* a step in which a call made for the request fails (the upstream rejects
\* or answers outside 2xx, or the run is reported failed) ends the handler
\* without a further call, and an ended handler calls nothing
FailStopStep ==
  \A r \in DOMAIN pc :
    /\ (upFail'[r] # upFail[r]
          \/ (lastRun'[r] # lastRun[r]
                /\ lastRun'[r].status \in {Str("failed"), Str("cancelled"), Str("expired")}))
         => /\ calls'[r] = calls[r]
            /\ pc'[r] = "done"
            /\ IsErrorResponse(responses'[r][1])
    /\ pc[r] = "done" => calls'[r] = calls[r]
    /\ Len(calls'[r]) <= Len(calls[r]) + 1
    /\ \A k \in 1..Len(calls[r]) : calls'[r][k] = calls[r][k]

\* C15: the upstream calls of one /chat/send are, in this order, thread
\* creation (only when the client named no thread), append, create run, one
\* or more status fetches and list messages with limit 20, the steps other
\* than the status fetch at most once, list messages only after a status
\* fetch returned `completed`; a failed step ends the request with no
\* further call.
C15_FixedOrderFailStop ==
  /\ [](\A r \in DOMAIN pc : route[r] = "send" => InOrder(r))
  /\ [][FailStopStep]_vars

\* all five steps were taken, with two status fetches
C15_Witness ==
  \E r \in DOMAIN pc :
    /\ route[r] = "send" /\ pc[r] = "done"
    /\ Ops(r) = <<"createThread", "addUserMessage", "createRun", "getRun", "getRun",
                  "listMessages">>
    /\ TheResponse(r).status = 200

\* the four statuses that end the poller
EndingStatuses == {Str("completed"), Str("failed"), Str("cancelled"), Str("expired")}

\* a status fetch that returns a run with any other status, or with none,
\* sends nothing and calls nothing: the poller goes to wait; and the wait
\* after attempt k ends in attempt k + 1 when k < 40, in the timeout else
PendingStep ==
  \A r \in DOMAIN pc :
    /\ (pc[r] = "awaitGetRun" /\ polled'[r] # polled[r]
          /\ lastRun'[r].status \notin EndingStatuses)
         => /\ pc'[r] = "sleeping"
            /\ responses'[r] = responses[r]
            /\ calls'[r] = calls[r]
    /\ (pc[r] = "sleeping" /\ pc'[r] # "sleeping")
         => IF NCalls(r, "getRun") < 40
              THEN /\ pc'[r] = "awaitGetRun"
                   /\ calls'[r] = Append(calls[r], getRun(tid[r], runId[r]))
                   /\ responses'[r] = responses[r]
              ELSE /\ pc'[r] = "done"
                   /\ calls'[r] = calls[r]
                   /\ responses'[r][1].error = Str("Timed out waiting for assistant response")

\* C16: a status fetch that returns a status other than completed, failed,
\* cancelled and expired (an unknown one or none at all) is taken as
\* pending: at attempt k < 40 the poller waits and issues attempt k + 1, and
\* neither completion nor a run failure is reported on it.
C16_OtherStatusesPending ==
  /\ [](\A r \in DOMAIN pc :
          /\ pc[r] = "sleeping" => lastRun[r].status \notin EndingStatuses
          /\ pc[r] = "awaitListMessages" => lastRun[r].status = Str("completed")
          /\ (pc[r] \in {"sleeping", "awaitGetRun"} /\ polled[r].pending > 0)
               => responses[r] = <<>> /\ NCalls(r, "listMessages") = 0)
  /\ [][PendingStep]_vars

\* two status fetches returned pending statuses, the second no status at
\* all, and the third attempt is under way
C16_Witness ==
  \E r \in DOMAIN pc :
    /\ pc[r] = "awaitGetRun"
    /\ polled[r] = [pending |-> 2, terminal |-> 0]
    /\ lastRun[r].status = Undefined
    /\ NCalls(r, "getRun") = 3
    /\ responses[r] = <<>>

\* the poller waits only after a status fetch that returned a pending
\* status, and then 400 ms
WaitStep ==
  \A r \in DOMAIN pc :
    waited'[r] # waited[r]
      => /\ pc[r] = "sleeping"
         /\ lastRun[r].status \notin EndingStatuses
         /\ waited'[r] = waited[r] + 400

\* C17: the poller waits 400 ms after each status fetch that returned a
\* pending status and never after one that returned a terminal status: the
\* time waited is 400 ms times the pending fetches (less the wait under
\* way), is at most 16000 ms, and is 16000 ms exactly when the request
\* ended in the poller's timeout.
C17_WaitIs400PerPendingPoll ==
  /\ [](\A r \in DOMAIN pc :
          /\ waited[r] = 400 * (polled[r].pending - IF pc[r] = "sleeping" THEN 1 ELSE 0)
          /\ waited[r] <= 16000
          /\ polled[r].terminal <= 1
          /\ (waited[r] = 16000)
               <=> /\ pc[r] = "done" /\ Len(responses[r]) = 1
                   /\ TheResponse(r).error = Str("Timed out waiting for assistant response"))
  /\ [][WaitStep]_vars

\* three pending status fetches, then `completed`: 1200 ms waited, and no
\* wait after the terminal fetch
C17_Witness ==
  \E r \in DOMAIN pc :
    /\ pc[r] = "done"
    /\ polled[r] = [pending |-> 3, terminal |-> 1]
    /\ lastRun[r].status = Str("completed")
    /\ waited[r] = 1200
    /\ TheResponse(r).status = 200

\* C18: given an upstream answer, openAI throws exactly when its status is
\* outside 200..299; the error carries the status, the whole parsed payload
\* and as message the payload's error.message when it has a non-empty one,
\* else "OpenAI request failed (<status>)"; on a status within 200..299 it
\* returns the parsed payload, also when the body was empty or no JSON.
C18_ThrowsIffNotOk ==
  (outcome.returned /\ fetched.net = "ok")
    => LET payload == UpstreamPayload(fetched.body)
           named == payload.kind = "object" /\ IsString(payload.errMsg)
                      /\ payload.errMsg # Str("")
       IN /\ outcome.threw <=> (fetched.status < 200 \/ fetched.status > 299)
          /\ outcome.threw
               => /\ outcome.err.hasStatus /\ outcome.err.status = fetched.status
                  /\ outcome.err.data = payload
                  /\ outcome.err.message =
                       IF named THEN payload.errMsg.v
                       ELSE "OpenAI request failed (" \o ToString(fetched.status) \o ")"
          /\ ~outcome.threw => outcome.data = payload

\* an answer 404 whose body is no JSON: the error carries 404, the text
\* under `raw` and the generic message
C18_Witness ==
  /\ outcome.returned /\ outcome.threw
  /\ fetched.status = 404 /\ fetched.body.fmt = "garbage"
  /\ outcome.err.status = 404
  /\ outcome.err.data.raw = Str("<html>")
  /\ outcome.err.message = "OpenAI request failed (404)"

\* a /chat/send that passed validation and has not ended
Underway(r) == route[r] = "send" /\ pc[r] \notin {"idle", "done"}

\* the three ends of a /chat/send: the reply, an error response, and the
\* error response of the timeout after 40 status fetches
EndedOneOfThree(r) ==
  /\ pc[r] = "done" /\ Len(responses[r]) = 1
  /\ \/ TheResponse(r).status = 200 /\ IsString(TheResponse(r).reply)
     \/ /\ IsErrorResponse(TheResponse(r))
        /\ TheResponse(r).error # Str("Timed out waiting for assistant response")
     \/ /\ TheResponse(r).error = Str("Timed out waiting for assistant response")
        /\ NCalls(r, "getRun") = 40
        /\ polled[r].pending = 40

\* the client going away changes nothing of its request but the mark of it
DisconnectStep ==
  \A r \in Reqs :
    closed'[r] # closed[r]
      => /\ pc'[r] = pc[r] /\ calls'[r] = calls[r] /\ responses'[r] = responses[r]
         /\ i'[r] = i[r] /\ waited'[r] = waited[r]

\* C14: when every upstream call returns and every timer fires, a
\* /chat/send that passed validation ends, in the reply, in an error
\* response, or in the timeout after 40 status fetches; it does so too
\* after its client went away, which changes nothing of the sequence.
C14_SendTerminates ==
  /\ \A r \in Reqs : Underway(r) ~> EndedOneOfThree(r)
  /\ [][DisconnectStep]_vars

\* the client went away and the request ran on to the timeout
C14_Witness ==
  \E r \in Reqs :
    /\ closed[r]
    /\ EndedOneOfThree(r)
    /\ TheResponse(r).error = Str("Timed out waiting for assistant response")
    /\ waited[r] = 16000

(***************************************************************************)
(* Two requests at once.                                                   *)
(***************************************************************************)
\* C11: every /chat/start makes exactly one upstream call, a thread
\* creation, and with an upstream that issues a fresh id per creation two
\* /chat/start requests, one after the other or at once, are answered with
\* two different thread ids.
C11_StartsCreateDistinctThreads ==
  /\ \A r \in DOMAIN pc :
       route[r] = "start"
         => /\ Ops(r) = <<"createThread">>
            /\ calls[r][1] = createThread
            /\ pc[r] = "done"
                 => /\ TheResponse(r).status = 200
                    /\ IsString(TheResponse(r).threadId)
                    /\ TheResponse(r).threadId = created[r]
  /\ \A r, q \in DOMAIN pc :
       (r # q /\ route[r] = "start" /\ route[q] = "start"
          /\ pc[r] = "done" /\ pc[q] = "done")
         => TheResponse(r).threadId # TheResponse(q).threadId

\* both requests were /chat/start and were answered t_1 and t_2
C11_Witness ==
  /\ DOMAIN pc = Reqs2
  /\ \A r \in Reqs2 : route[r] = "start" /\ pc[r] = "done"
  /\ {TheResponse(r).threadId : r \in Reqs2} = {Str("t_1"), Str("t_2")}

\* everything the relay holds for a request
Own(r) ==
  <<pc[r], route[r], reqBody[r], tid[r], runId[r], i[r], calls[r], responses[r]>>

\* a step changes what the relay holds for one request at most
PrivateStep ==
  \A r, q \in DOMAIN pc : (r # q /\ Own(r)' # Own(r)) => Own(q)' = Own(q)

\* the next step of the request's handler can be taken now; a status fetch
\* that the upstream would answer `queued` once more than the model follows
\* is not counted
CanStep(q) ==
  CASE pc[q] = "idle" -> ENABLED ReceiveStart(q) /\ ENABLED TwoReceiveSend(q)
    [] pc[q] = "awaitCreateThread" ->
         ENABLED (TwoStartCreateThreadReturns(q) \/ TwoSendCreateThreadReturns(q))
    [] pc[q] = "awaitAddMessage" -> ENABLED TwoAddMessageReturns(q)
    [] pc[q] = "awaitCreateRun" -> ENABLED TwoCreateRunReturns(q)
    [] pc[q] = "awaitGetRun" ->
         ENABLED TwoGetRunReturns(q) \/ polled[q].pending = MaxPending
    [] pc[q] = "sleeping" -> ENABLED SleepFires(q)
    [] pc[q] = "awaitListMessages" -> ENABLED TwoListMessagesReturns(q)
    [] OTHER -> pc[q] = "done"

\* C19: with two requests handled at once, a step changes the thread id,
\* run id, loop counter, calls and responses of one request only; two
\* requests never hold the same run; a request waiting between two status
\* fetches keeps no other request from its next step; and the calls of each
\* request are in the order of a lone request, its status fetches as many
\* as the answers it got itself and as its own counter says.
C19_RequestsIndependent ==
  /\ [](\A r \in DOMAIN pc :
          /\ route[r] = "send" => InOrder(r)
          /\ \A k \in 1..Len(calls[r]) :
               /\ calls[r][k].op = "getRun" => calls[r][k] = getRun(tid[r], runId[r])
               /\ calls[r][k].op = "createRun" => calls[r][k] = createRun(tid[r])
          /\ IsString(runId[r])
               => /\ up.runs[runId[r].v].thread = tid[r].v
                  /\ \A q \in DOMAIN pc \ {r} : runId[q] # runId[r]
          /\ NCalls(r, "getRun")
               = polled[r].pending + polled[r].terminal
                   + IF pc[r] = "awaitGetRun" THEN 1 ELSE 0
          /\ pc[r] \in {"awaitGetRun", "sleeping"} => NCalls(r, "getRun") = i[r] + 1
          /\ pc[r] = "sleeping" => \A q \in DOMAIN pc \ {r} : CanStep(q))
  /\ [][PrivateStep]_vars

\* both requests are between two status fetches, one after its first fetch
\* and one after its second, of two different runs
C19_Witness ==
  \E r, q \in Reqs2 :
    /\ r # q /\ DOMAIN pc = Reqs2
    /\ pc[r] = "sleeping" /\ i[r] = 0
    /\ pc[q] = "sleeping" /\ i[q] = 1
    /\ IsString(runId[r]) /\ IsString(runId[q]) /\ runId[r] # runId[q]

\* the texts of the assistant messages the run put on the request's thread
RepliesOfRun(t, k) ==
  {Str(up.threads[t].msgs[n].text) :
     n \in {n \in 1..Len(up.threads[t].msgs) :
              /\ up.threads[t].msgs[n].role = "assistant"
              /\ up.threads[t].msgs[n].run = k}}

\* C20: the reply of a 200 response of /chat/send is the text of an
\* assistant message that the run created by this request put on the
\* thread, not a message of an earlier turn or of another request's run.
C20_ReplyIsOfOwnRun ==
  \A r \in DOMAIN pc :
    (route[r] = "send" /\ pc[r] = "done" /\ TheResponse(r).status = 200)
      => TheResponse(r).reply \in RepliesOfRun(tid[r].v, runId[r].v)

====
